---- MODULE Spec2Model ----
(***************************************************************************)
(* The optimistic kanban synchronisation engine of the Flowboard screen    *)
(* (frontend/src/screens/FlowboardScreen.tsx, FlowboardComponents.tsx,     *)
(* contexts/TaskContext.tsx): the Board (optimisticTasks over the context  *)
(* task list), single moves with their per-key lock, create, edit, delete, *)
(* the Restart workflow with its bulk moves and archive-all, the drop-zone *)
(* registry and the auto-scroll loop.                                      *)
(*                                                                         *)
(* Scheduling: one JavaScript thread.  An action is one synchronous run of *)
(* a handler or of an async function between two suspension points (a      *)
(* network call, a haptic call, a frame callback).  Awaits of promises     *)
(* that are already resolved do not let an event or a completion in, so    *)
(* they do not end an action.  Every action ends with the re-render, whose *)
(* `tasks` memo may write optimisticTasks (Normalize).                     *)
(***************************************************************************)
EXTENDS Integers, Sequences, FiniteSets, TLC

\* ---------------------------------------------------------------- bounds
NumTasks == 2     \* server-side task ids are 1..NumTasks
MaxOps   == 3     \* user operations accepted in one run
MaxRestarts == 1  \* Restart workflows confirmed in one run
MaxInFlight == 2  \* handlers of user operations awaiting at the same time

\* ------------------------------------------------------- types, constants
Ids    == 1..NumTasks
TempId == 0       \* `temp-${Date.now()}`, the id of a task being created

COLUMNS == <<"Exploring", "Active", "Reviewing", "Complete">>
UIStates == {COLUMNS[i] : i \in DOMAIN COLUMNS}
BackendStates == {"Exploring", "Planning", "Doing", "Done"}

toUIState(s) ==
    CASE s = "Exploring" -> "Exploring"
      [] s = "Planning"  -> "Active"
      [] s = "Doing"     -> "Reviewing"
      [] s = "Done"      -> "Complete"
      [] s = "Active"    -> "Active"
      [] s = "Reviewing" -> "Reviewing"
      [] s = "Complete"  -> "Complete"
      [] OTHER           -> "Exploring"

\* toUIState of src/screens/FlowboardScreen.tsx (the screen built on
\* react-native-drax): `case 'Done': default: return 'Complete'`
toUIState2(s) ==
    CASE s = "Exploring" -> "Exploring"
      [] s = "Planning"  -> "Active"
      [] s = "Doing"     -> "Reviewing"
      [] OTHER           -> "Complete"

\* toBackendState, the same in both screens
toBackendStateSwapped(s) ==
    CASE s = "Exploring" -> "Exploring"
      [] s = "Active"    -> "Doing"
      [] s = "Reviewing" -> "Planning"
      [] s = "Complete"  -> "Done"
toBackendState(s) ==
    CASE s = "Exploring" -> "Exploring"
      [] s = "Active"    -> "Planning"
      [] s = "Reviewing" -> "Doing"
      [] s = "Complete"  -> "Done"

\* Titles are sequences of characters, so that trim() is a real conversion.
Title0 == <<"a">>

\* A UITask {id, title, state}; notes travel with the title in every
\* operation of the screen and are not kept apart.
UITask(i, ti, st) == [id |-> i, title |-> ti, state |-> st]
None == [id |-> -1, title |-> <<>>, state |-> "-"]

VARIABLES
    remote,        \* the remote store: id -> [present, title, state, isArchived]
    ctx,           \* contextTasks: the list the last completed refresh returned
    opt,           \* optimisticTasks
    pendingMoves,  \* the set of keys `${taskId}-${target}`
    moves,         \* moveTaskTo calls that have not returned
    dels,          \* confirmDelete handlers that have not returned
    edits,         \* submitEdit calls that have not returned
    creates,       \* submitNewTask calls that have not returned
    restarts,      \* handleRestart handlers that have not returned
    archs,         \* archiveAllComplete handlers, until their last call settles
    orphans,       \* update calls still in flight after their Promise.all rejected
    overlayTask,   \* the task of the open TaskOverlay, or None
    editTask,      \* the task captured by openEditModal, or None
    editVisible, addVisible, saving, bulkLoading,
    archivePrompt, \* toArchive of the open 'Archive All Complete' alert, or <<>>
    restartPrompt, \* the 'Restart Workflow' alert: whether it is open, the tasks it saw
    nops,          \* user operations so far
    haptics,       \* whether the calls of expo-haptics resolve on this device
    lastRestart,   \* the Restart confirmed last: their number so far, the Board it saw,
                   \* whether its archive was confirmed, whether every remote call of
                   \* the workflow has resolved so far
    ev,            \* the last step taken, with its outcome
    dropZones,     \* dropZonesRef: the entries of the Map in its iteration order
    regTime,       \* column -> the time of the registration that inserted its entry, or 0
    clock,         \* registrations that inserted an entry so far
    hit,           \* the last checkDropZone call: its point and its result
    viewport,      \* the height of the list on this device
    scrollY,       \* scrollY.current
    contentHeight, \* the contentHeight state
    loop,          \* autoScrollInterval.current with the closure of the scheduled scrollStep
    written,       \* the last scrollToOffset of the loop, with the content and list heights then
    conv           \* the last call of a state mapper, and how many there were

boardVars == <<remote, ctx, opt, pendingMoves, moves, dels, edits, creates, restarts,
               archs, orphans, overlayTask, editTask, editVisible, addVisible, saving,
               bulkLoading, archivePrompt, restartPrompt, nops, haptics, lastRestart, ev>>
zoneVars == <<dropZones, regTime, clock, hit>>
scrollVars == <<viewport, scrollY, contentHeight, loop, written>>
mapVars == <<conv>>
vars == <<boardVars, zoneVars, scrollVars, mapVars>>

\* ------------------------------------------------------------ sequences
RECURSIVE MapState(_, _, _)
\* prev.map(t => pred(t) ? {...t, state} : t) for pred = "id is in ids"
MapState(seq, ids, st) ==
    IF seq = <<>> THEN <<>>
    ELSE <<IF Head(seq).id \in ids THEN [Head(seq) EXCEPT !.state = st] ELSE Head(seq)>>
         \o MapState(Tail(seq), ids, st)

RECURSIVE Replace(_, _, _)
\* prev.map(t => t.id === id ? task : t)
Replace(seq, i, task) ==
    IF seq = <<>> THEN <<>>
    ELSE <<IF Head(seq).id = i THEN task ELSE Head(seq)>> \o Replace(Tail(seq), i, task)

\* prev.filter(t => !ids.has(t.id))
Without(seq, ids) == SelectSeq(seq, LAMBDA t : t.id \notin ids)

IdsOf(seq) == {seq[i].id : i \in 1..Len(seq)}

\* tasks.find(t => t.id === id), None for undefined
Find(seq, i) ==
    IF i \in IdsOf(seq)
    THEN seq[CHOOSE k \in 1..Len(seq) : seq[k].id = i /\ \A j \in 1..(k-1) : seq[j].id # i]
    ELSE None

\* ------------------------------------------------------- the remote store
Absent == [present |-> FALSE, title |-> <<>>, state |-> "Exploring", isArchived |-> FALSE]

RECURSIVE ListFrom(_, _)
\* GET /tasks: every task of the user, archived ones with their flag
ListFrom(r, i) ==
    IF i > NumTasks THEN <<>>
    ELSE (IF r[i].present
          THEN <<[id |-> i, title |-> r[i].title, state |-> r[i].state,
                  isArchived |-> r[i].isArchived]>>
          ELSE <<>>) \o ListFrom(r, i + 1)

RemoteList(r) == ListFrom(r, 1)

\* PATCH /tasks/:id answers 2xx only for a task the store holds
CanUpdate(i) == i \in Ids /\ remote[i].present

\* ------------------------------------------------------------ the Board
RECURSIVE Mapped(_)
\* contextTasks.filter(t => !t.isArchived).map(...)
Mapped(c) ==
    IF c = <<>> THEN <<>>
    ELSE (IF Head(c).isArchived THEN <<>>
          ELSE <<UITask(Head(c).id, Head(c).title, toUIState(Head(c).state))>>)
         \o Mapped(Tail(c))

\* The render after a state change: the memo seeds optimisticTasks when it is
\* empty and the context list is not.
Normalize(o, c) == IF Len(o) = 0 /\ Len(Mapped(c)) > 0 THEN Mapped(c) ELSE o

\* `tasks`
Tasks == IF Len(opt) > 0 THEN opt ELSE Mapped(ctx)

\* `byColumn[c]`, of a task list
ByColumn(seq, c) == SelectSeq(seq, LAMBDA t : t.state = c)

\* ------------------------------------------------------------ last step
\* `ev` is the outcome of the last step, for the steps a property reads; the
\* other steps leave Quiet.
Ev0 == [op |-> "init", id |-> -1, target |-> "-", orig |-> "-",
        updated |-> FALSE, rolled |-> FALSE, hooks |-> 0, alerted |-> FALSE,
        hookOk |-> TRUE, okIds |-> {}, failIds |-> {}]

Quiet == [Ev0 EXCEPT !.op = "-"]

Event(o, i, x) == [Ev0 EXCEPT !.op = o, !.id = i, !.target = x]

\* No modal (overlay, add or edit modal, alert) covers the board.
UiFree == /\ overlayTask = None
          /\ ~addVisible
          /\ ~editVisible
          /\ archivePrompt = <<>>
          /\ ~restartPrompt.open

\* handlers of user operations that have not returned
InFlight == Cardinality(moves) + Cardinality(dels) + Cardinality(edits)
            + Cardinality(creates) + Cardinality(restarts)

\* ------------------------------------------------------------------ Init
Rank(slot) ==
    IF ~slot.present THEN 0
    ELSE CHOOSE k \in DOMAIN COLUMNS : COLUMNS[k] = toUIState(slot.state)

Slots == {Absent} \cup
         {[present |-> TRUE, title |-> Title0, state |-> s, isArchived |-> FALSE] :
            s \in BackendStates}

\* The stores the screen may open on, one per choice of columns (ids are
\* interchangeable, so the columns are taken in id order).
InitStores == {r \in [Ids -> Slots] :
                 \A i \in Ids : i + 1 \in Ids => Rank(r[i]) <= Rank(r[i + 1])}

\* The screen mounts under a TaskProvider that has loaded the list; the first
\* render seeds optimisticTasks.
BoardInit ==
    /\ remote \in InitStores
    /\ ctx = RemoteList(remote)
    /\ opt = Normalize(<<>>, ctx)
    /\ pendingMoves = {}
    /\ moves = {} /\ dels = {} /\ edits = {} /\ creates = {}
    /\ restarts = {} /\ archs = {} /\ orphans = {}
    /\ overlayTask = None /\ editTask = None
    /\ editVisible = FALSE /\ addVisible = FALSE
    /\ saving = FALSE /\ bulkLoading = FALSE
    /\ archivePrompt = <<>>
    /\ restartPrompt = [open |-> FALSE, snap |-> <<>>]
    /\ nops = 0
    /\ haptics \in BOOLEAN
    /\ lastRestart = [n |-> 0, snap |-> <<>>, confirmed |-> FALSE, ok |-> TRUE]
    /\ ev = Ev0

\* --------------------------------------------------------- moveTaskTo
\* pendingMoves.has(key)
IsPendingNever(t, X) == FALSE
IsPendingTask(t, X) == \E Y \in UIStates : <<t, Y>> \in pendingMoves
IsPending(t, X) == <<t, X>> \in pendingMoves

\* originalTask.state === target
SameStateNever(task, X) == FALSE
SameState(task, X) == task.state = X

\* the rollback of the catch block
RollbackColumn(o, m) == MapState(o, IdsOf(ByColumn(o, m.target)), m.orig)
Rollback(o, m) == MapState(o, {m.id}, m.orig)

\* A drop of card t on column X (TaskCard's pendingDrop effect calls onDragEnd),
\* up to the await of updateTask.
RequestMove(t, X) ==
    /\ UiFree
    /\ nops < MaxOps
    /\ t \in IdsOf(Tasks)
    /\ LET originalTask == Find(Tasks, t) IN
       IF IsPending(t, X)
       THEN /\ ev' = Event("moveSuppressed", t, X)
            /\ UNCHANGED <<opt, pendingMoves, moves, nops>>
       ELSE IF originalTask = None \/ SameState(originalTask, X)
       THEN /\ ev' = Event("moveNoop", t, X)
            /\ UNCHANGED <<opt, pendingMoves, moves, nops>>
       ELSE /\ InFlight < MaxInFlight
            /\ nops' = nops + 1
            /\ pendingMoves' = pendingMoves \cup {<<t, X>>}
            /\ opt' = Normalize(MapState(opt, {t}, X), ctx)
            /\ moves' = moves \cup
                 {[id |-> t, target |-> X, orig |-> originalTask.state,
                   pc |-> "update", updated |-> FALSE, rolled |-> FALSE, hooks |-> 0]}
            /\ ev' = [Event("moveAccepted", t, X) EXCEPT !.orig = originalTask.state]
    /\ UNCHANGED <<remote, ctx, dels, edits, creates, restarts, archs, orphans,
                   overlayTask, editTask, editVisible, addVisible, saving, bulkLoading,
                   archivePrompt, restartPrompt, haptics, lastRestart>>

MoveFrame == UNCHANGED <<ctx, dels, edits, creates, restarts, archs, orphans,
                         overlayTask, editTask, editVisible, addVisible, saving,
                         bulkLoading, archivePrompt, restartPrompt, nops, haptics, lastRestart>>

MoveEvent(o, m) == [Event(o, m.id, m.target) EXCEPT
                      !.orig = m.orig, !.updated = m.updated, !.rolled = m.rolled,
                      !.hooks = m.hooks]

MoveReturnKeepsKey(m, alerted, hookOk) ==
    /\ pendingMoves' = pendingMoves
    /\ moves' = moves \ {m}
    /\ ev' = [MoveEvent("moveSettled", m) EXCEPT !.alerted = alerted, !.hookOk = hookOk]

\* the finally block: the move returns
MoveReturn(m, alerted, hookOk) ==
    /\ pendingMoves' = pendingMoves \ {<<m.id, m.target>>}
    /\ moves' = moves \ {m}
    /\ ev' = [MoveEvent("moveSettled", m) EXCEPT !.alerted = alerted, !.hookOk = hookOk]

\* updateTask resolves; haptic('light') is called
MoveUpdateOk(m) ==
    /\ m.pc = "update"
    /\ CanUpdate(m.id)
    /\ remote' = [remote EXCEPT ![m.id].state = toBackendState(m.target)]
    /\ moves' = (moves \ {m}) \cup {[m EXCEPT !.pc = "haptic", !.updated = TRUE]}
    /\ ev' = Quiet
    /\ UNCHANGED <<opt, pendingMoves>>
    /\ MoveFrame

\* updateTask rejects: the catch block rolls back and calls haptic('error')
MoveUpdateFail(m) ==
    /\ m.pc = "update"
    /\ opt' = Normalize(Rollback(opt, m), ctx)
    /\ LET m2 == [m EXCEPT !.pc = "hapticErr", !.rolled = TRUE] IN
         /\ moves' = (moves \ {m}) \cup {m2}
         /\ ev' = MoveEvent("moveRolledBack", m2)
    /\ UNCHANGED <<remote, pendingMoves>>
    /\ MoveFrame

\* the hook is called for a move to Complete (user.uid is set while the screen shows)
CallsHook(m) == m.target = "Complete"

\* haptic('light') settles.  Resolved: a move to Complete calls the completion
\* hook notifyTaskComplete(user.uid, taskId, 1), any other move returns.
\* Rejected: the exception is thrown inside the try block, the catch block runs.
MoveHaptic(m) ==
    /\ m.pc = "haptic"
    /\ IF haptics
       THEN /\ IF CallsHook(m)
               THEN /\ moves' = (moves \ {m}) \cup
                                  {[m EXCEPT !.pc = "notify", !.hooks = m.hooks + 1]}
                    /\ ev' = Quiet
                    /\ UNCHANGED pendingMoves
               ELSE MoveReturn(m, FALSE, TRUE)
            /\ UNCHANGED opt
       ELSE /\ opt' = Normalize(Rollback(opt, m), ctx)
            /\ LET m2 == [m EXCEPT !.pc = "hapticErr", !.rolled = TRUE] IN
                 /\ moves' = (moves \ {m}) \cup {m2}
                 /\ ev' = MoveEvent("moveRolledBack", m2)
            /\ UNCHANGED pendingMoves
    /\ UNCHANGED remote
    /\ MoveFrame

MoveNotifyDoneSurfaced(m, ok) ==
    /\ m.pc = "notify"
    /\ MoveReturn([m EXCEPT !.rolled = ~ok], ~ok, ok)
    /\ opt' = IF ok THEN opt ELSE Normalize(Rollback(opt, m), ctx)
    /\ UNCHANGED remote
    /\ MoveFrame

\* The hook (and the plant fetch behind it) settles: its failure is logged by
\* the inner catch; setCelebrate(true); finally.
MoveNotifyDone(m, ok) ==
    /\ m.pc = "notify"
    /\ MoveReturn(m, FALSE, ok)
    /\ UNCHANGED <<remote, opt>>
    /\ MoveFrame

\* haptic('error') settles: Alert 'Move failed' when it resolved; finally.
MoveAlert(m) ==
    /\ m.pc = "hapticErr"
    /\ MoveReturn(m, haptics, TRUE)
    /\ UNCHANGED <<remote, opt>>
    /\ MoveFrame

\* ------------------------------------------------------------- refresh
\* useFocusEffect: refresh() of TaskContext, from its call to setTasks(data).
\* A failed list call leaves contextTasks alone (setError).
FocusRefresh(ok) ==
    /\ UiFree
    /\ ctx' = IF ok THEN RemoteList(remote) ELSE ctx
    /\ opt' = Normalize(opt, ctx')
    /\ ev' = [Event("refresh", -1, "-") EXCEPT !.updated = ok]
    /\ UNCHANGED <<remote, pendingMoves, moves, dels, edits, creates, restarts, archs,
                   orphans, overlayTask, editTask, editVisible, addVisible, saving,
                   bulkLoading, archivePrompt, restartPrompt, nops, haptics, lastRestart>>

\* ------------------------------------------------ overlay and confirmDelete
ModalFrame == UNCHANGED <<remote, ctx, opt, pendingMoves, moves, dels, edits, creates,
                          restarts, archs, orphans, saving, bulkLoading, archivePrompt,
                          restartPrompt, nops, haptics, lastRestart>>

\* The menu of a row: setOverlayTask(task)
OpenOverlay(i) ==
    /\ UiFree
    /\ nops < MaxOps
    /\ i \in 1..Len(Tasks)
    /\ overlayTask' = Tasks[i]
    /\ ev' = Quiet
    /\ UNCHANGED <<editTask, editVisible, addVisible>>
    /\ ModalFrame

\* onClose of the overlay
CloseOverlay ==
    /\ overlayTask # None
    /\ overlayTask' = None
    /\ ev' = Quiet
    /\ UNCHANGED <<editTask, editVisible, addVisible>>
    /\ ModalFrame

DelFrame == UNCHANGED <<ctx, pendingMoves, moves, edits, creates, restarts, archs, orphans,
                        editTask, editVisible, addVisible, saving, bulkLoading,
                        archivePrompt, restartPrompt, nops, haptics, lastRestart>>

\* the catch block of the delete handler: setOptimisticTasks(prev => [...prev, task])
Reinsert(o, task) == Append(o, task)

\* 'Delete' of the overlay, confirmed in its alert, up to the await of updateTask
ConfirmDelete ==
    /\ overlayTask # None
    /\ nops < MaxOps
    /\ InFlight < MaxInFlight
    /\ nops' = nops + 1
    /\ opt' = Normalize(Without(opt, {overlayTask.id}), ctx)
    /\ dels' = dels \cup {[n |-> nops + 1, task |-> overlayTask, pc |-> "update"]}
    /\ ev' = Event("delete", overlayTask.id, "-")
    /\ UNCHANGED <<remote, ctx, pendingMoves, moves, edits, creates, restarts, archs,
                   orphans, overlayTask, editTask, editVisible, addVisible, saving,
                   bulkLoading, archivePrompt, restartPrompt, haptics, lastRestart>>

\* updateTask(id, {isArchived: true}) resolves: setOverlayTask(null), haptic('light')
DeleteUpdateOk(d) ==
    /\ d.pc = "update"
    /\ CanUpdate(d.task.id)
    /\ remote' = [remote EXCEPT ![d.task.id].isArchived = TRUE]
    /\ overlayTask' = None
    /\ dels' = (dels \ {d}) \cup {[d EXCEPT !.pc = "haptic"]}
    /\ ev' = Quiet
    /\ UNCHANGED opt
    /\ DelFrame

\* updateTask rejects: the task is put back, Alert 'Archive failed'
DeleteUpdateFail(d) ==
    /\ d.pc = "update"
    /\ opt' = Normalize(Reinsert(opt, d.task), ctx)
    /\ dels' = dels \ {d}
    /\ ev' = [Event("deleteSettled", d.task.id, "-") EXCEPT
                !.rolled = TRUE, !.alerted = TRUE]
    /\ UNCHANGED <<remote, overlayTask>>
    /\ DelFrame

\* haptic('light') settles; its rejection runs the same catch block
DeleteHaptic(d) ==
    /\ d.pc = "haptic"
    /\ opt' = IF haptics THEN opt ELSE Normalize(Reinsert(opt, d.task), ctx)
    /\ dels' = dels \ {d}
    /\ ev' = [Event("deleteSettled", d.task.id, "-") EXCEPT
                !.updated = TRUE, !.rolled = ~haptics, !.alerted = ~haptics]
    /\ UNCHANGED <<remote, overlayTask>>
    /\ DelFrame

\* ---------------------------------------------------------------- edit
RECURSIVE TrimStart(_)
TrimStart(s) == IF s # <<>> /\ Head(s) = " " THEN TrimStart(Tail(s)) ELSE s

RECURSIVE TrimEnd(_)
TrimEnd(s) == IF s # <<>> /\ s[Len(s)] = " " THEN TrimEnd(SubSeq(s, 1, Len(s) - 1)) ELSE s

TrimNone(s) == s
\* String.prototype.trim
Trim(s) == TrimEnd(TrimStart(s))

\* what the user may have typed in a title field
TitleInputs == {<<>>, <<" ">>, <<"b">>, <<"b", " ">>}

\* 'Edit' of the overlay: openEditModal(task)
OpenEditModal ==
    /\ overlayTask # None
    /\ editTask' = overlayTask
    /\ editVisible' = TRUE
    /\ overlayTask' = None
    /\ ev' = Quiet
    /\ UNCHANGED addVisible
    /\ ModalFrame

\* onClose of the edit modal (Cancel, or the back button).  editTask is read
\* only by a submit of the open modal and openEditModal sets it anew, so it is
\* cleared here.
CloseEdit ==
    /\ editVisible
    /\ editVisible' = FALSE
    /\ editTask' = None
    /\ ev' = Quiet
    /\ UNCHANGED <<overlayTask, addVisible>>
    /\ ModalFrame

EditFrame == UNCHANGED <<ctx, pendingMoves, moves, dels, creates, restarts, archs, orphans,
                         overlayTask, addVisible, bulkLoading, archivePrompt, restartPrompt,
                         haptics, lastRestart>>

\* submitEdit up to the await of updateTask
SubmitEdit(input) ==
    /\ editVisible
    /\ ~saving
    /\ editTask # None
    /\ nops < MaxOps
    /\ nops' = nops + 1
    /\ LET title == Trim(input) IN
       IF title = <<>>
       THEN /\ ev' = [Event("editRejected", editTask.id, "-") EXCEPT !.alerted = TRUE]
            /\ UNCHANGED <<opt, edits, saving>>
       ELSE LET updated == [editTask EXCEPT !.title = title] IN
            /\ InFlight < MaxInFlight
            /\ saving' = TRUE
            /\ opt' = Normalize(Replace(opt, editTask.id, updated), ctx)
            /\ edits' = edits \cup
                 {[original |-> editTask, updated |-> updated]}
            /\ ev' = Event("editApplied", editTask.id, "-")
    /\ UNCHANGED <<remote, editTask, editVisible>>
    /\ EditFrame

\* updateTask(id, {title, notes}) resolves: setEditVisible(false); finally
EditOk(e) ==
    /\ e \in edits
    /\ CanUpdate(e.updated.id)
    /\ remote' = [remote EXCEPT ![e.updated.id].title = e.updated.title]
    /\ editVisible' = FALSE
    /\ editTask' = None
    /\ saving' = FALSE
    /\ edits' = edits \ {e}
    /\ ev' = [Event("editSettled", e.updated.id, "-") EXCEPT !.updated = TRUE]
    /\ UNCHANGED <<opt, nops>>
    /\ EditFrame

\* updateTask rejects: the original is put back, Alert 'Save failed'; finally
EditFail(e) ==
    /\ e \in edits
    /\ opt' = Normalize(Replace(opt, e.original.id, e.original), ctx)
    /\ saving' = FALSE
    /\ edits' = edits \ {e}
    /\ ev' = [Event("editSettled", e.updated.id, "-") EXCEPT
                !.rolled = TRUE, !.alerted = TRUE]
    /\ UNCHANGED <<remote, editTask, editVisible, nops>>
    /\ EditFrame

\* -------------------------------------------------------------- create
\* '+ New' (disabled while bulkLoading): openAddModal
OpenAddModal ==
    /\ UiFree
    /\ ~bulkLoading
    /\ nops < MaxOps
    /\ addVisible' = TRUE
    /\ ev' = Quiet
    /\ UNCHANGED <<overlayTask, editTask, editVisible>>
    /\ ModalFrame

\* onClose of the add modal
CloseAdd ==
    /\ addVisible
    /\ addVisible' = FALSE
    /\ ev' = Quiet
    /\ UNCHANGED <<overlayTask, editTask, editVisible>>
    /\ ModalFrame

CreateFrame == UNCHANGED <<ctx, pendingMoves, moves, dels, edits, restarts, archs, orphans,
                           overlayTask, editTask, editVisible, bulkLoading, archivePrompt, restartPrompt,
                           haptics, lastRestart>>

\* submitNewTask up to the await of createTask
SubmitNewTask(input, st) ==
    /\ addVisible
    /\ ~saving
    /\ nops < MaxOps
    /\ nops' = nops + 1
    /\ LET title == Trim(input) IN
       IF title = <<>>
       THEN /\ ev' = [Event("createRejected", -1, st) EXCEPT !.alerted = TRUE]
            /\ UNCHANGED <<opt, creates, saving>>
       ELSE /\ InFlight < MaxInFlight
            /\ saving' = TRUE
            /\ opt' = Normalize(<<UITask(TempId, title, st)>> \o opt, ctx)
            /\ creates' = creates \cup
                 {[title |-> title, state |-> st, pc |-> "create"]}
            /\ ev' = Event("createApplied", TempId, st)
    /\ UNCHANGED <<remote, addVisible>>
    /\ CreateFrame

\* the id the store gives the next task
FreshIds == {i \in Ids : ~remote[i].present /\ \A j \in Ids : j < i => remote[j].present}

\* createTask resolves: the temporary task becomes the created one,
\* setAddVisible(false), haptic('medium')
CreateOk(c) ==
    /\ c.pc = "create"
    /\ \E i \in FreshIds :
         /\ remote' = [remote EXCEPT ![i] =
                          [present |-> TRUE, title |-> c.title,
                           state |-> toBackendState(c.state), isArchived |-> FALSE]]
         /\ opt' = Normalize(Replace(opt, TempId,
                                UITask(i, c.title, toUIState(toBackendState(c.state)))), ctx)
    /\ addVisible' = FALSE
    /\ creates' = (creates \ {c}) \cup {[c EXCEPT !.pc = "haptic"]}
    /\ ev' = Quiet
    /\ UNCHANGED <<saving, nops>>
    /\ CreateFrame

\* createTask rejects: the temporary task is dropped, Alert 'Could not add task'; finally
CreateFail(c) ==
    /\ c.pc = "create"
    /\ opt' = Normalize(Without(opt, {TempId}), ctx)
    /\ saving' = FALSE
    /\ creates' = creates \ {c}
    /\ ev' = [Event("createSettled", TempId, c.state) EXCEPT
                !.rolled = TRUE, !.alerted = TRUE]
    /\ UNCHANGED <<remote, addVisible, nops>>
    /\ CreateFrame

\* haptic('medium') settles; its rejection runs the same catch block; finally
CreateHaptic(c) ==
    /\ c.pc = "haptic"
    /\ opt' = IF haptics THEN opt ELSE Normalize(Without(opt, {TempId}), ctx)
    /\ saving' = FALSE
    /\ creates' = creates \ {c}
    /\ ev' = [Event("createSettled", TempId, c.state) EXCEPT
                !.updated = TRUE, !.alerted = ~haptics]
    /\ UNCHANGED <<remote, addVisible, nops>>
    /\ CreateFrame
\* ------------------------------------------------ handleRestart, bulkMoveTasks
\* The two bulk moves of the Restart workflow, in their order
BulkFrom(k) == IF k = 1 THEN "Reviewing" ELSE "Active"
BulkTo(k) == IF k = 1 THEN "Complete" ELSE "Exploring"

\* `toMove` of bulk move k under the byColumn the Restart press saw
ToMove(snap, k) == IdsOf(ByColumn(snap, BulkFrom(k)))

\* handleRestart from its k-th bulk move on, up to the next await: a bulk move
\* with tasks to move sets bulkLoading, writes the target column and issues its
\* update calls; with none left the final refresh is awaited.
EnterPhase(snap, k, o, bl) ==
    LET start(kk) == [o |-> MapState(o, ToMove(snap, kk), BulkTo(kk)),
                      bl |-> TRUE,
                      r |-> [snap |-> snap, k |-> kk, pc |-> "calls",
                             pending |-> ToMove(snap, kk)]]
    IN IF k <= 1 /\ ToMove(snap, 1) # {} THEN start(1)
       ELSE IF k <= 2 /\ ToMove(snap, 2) # {} THEN start(2)
       ELSE [o |-> o, bl |-> bl,
             r |-> [snap |-> snap, k |-> 3, pc |-> "refresh", pending |-> {}]]

RestartFrame == UNCHANGED <<pendingMoves, moves, dels, edits, creates, archs,
                            overlayTask, editTask, editVisible, addVisible, saving,
                            archivePrompt, restartPrompt, nops, haptics>>

\* 'Restart' (disabled while bulkLoading): handleRestart shows its alert
RestartOpen ==
    /\ UiFree
    /\ ~bulkLoading
    /\ nops < MaxOps
    /\ lastRestart.n < MaxRestarts
    /\ restartPrompt' = [open |-> TRUE, snap |-> Tasks]
    /\ ev' = Quiet
    /\ UNCHANGED <<remote, ctx, opt, pendingMoves, moves, dels, edits, creates, restarts,
                   archs, orphans, overlayTask, editTask, editVisible, addVisible, saving,
                   bulkLoading, archivePrompt, nops, haptics, lastRestart>>

\* 'Cancel' of the Restart alert
RestartCancel ==
    /\ restartPrompt.open
    /\ restartPrompt' = [open |-> FALSE, snap |-> <<>>]
    /\ ev' = Quiet
    /\ UNCHANGED <<remote, ctx, opt, pendingMoves, moves, dels, edits, creates, restarts,
                   archs, orphans, overlayTask, editTask, editVisible, addVisible, saving,
                   bulkLoading, archivePrompt, nops, haptics, lastRestart>>

\* 'Restart' of the alert.  archiveAllComplete only shows its alert and
\* returns, so the handler goes on to the bulk moves with that alert open.
RestartConfirm ==
    /\ restartPrompt.open
    /\ nops < MaxOps
    /\ lastRestart.n < MaxRestarts
    /\ InFlight < MaxInFlight
    /\ nops' = nops + 1
    /\ restartPrompt' = [open |-> FALSE, snap |-> <<>>]
    /\ LET snap == restartPrompt.snap
           res == EnterPhase(snap, 1, opt, TRUE)
       IN /\ archivePrompt' = ByColumn(snap, "Complete")
          /\ opt' = Normalize(res.o, ctx)
          /\ bulkLoading' = res.bl
          /\ restarts' = restarts \cup {res.r}
          /\ lastRestart' = [n |-> lastRestart.n + 1, snap |-> snap, confirmed |-> FALSE, ok |-> TRUE]
          /\ ev' = Event("restart", -1, "-")
    /\ UNCHANGED <<remote, ctx, pendingMoves, moves, dels, edits, creates, archs, orphans,
                   overlayTask, editTask, editVisible, addVisible, saving, haptics>>

BulkReturnStops(r, o) ==
    LET res == EnterPhase(r.snap, IF o = opt THEN r.k + 1 ELSE 3, o, FALSE) IN
    /\ opt' = Normalize(res.o, ctx)
    /\ bulkLoading' = res.bl
    /\ restarts' = (restarts \ {r}) \cup {res.r}

\* bulkMoveTasks returns (its finally block) and handleRestart goes on
BulkReturn(r, o) ==
    LET res == EnterPhase(r.snap, r.k + 1, o, FALSE) IN
    /\ opt' = Normalize(res.o, ctx)
    /\ bulkLoading' = res.bl
    /\ restarts' = (restarts \ {r}) \cup {res.r}

\* the catch block of bulkMoveTasks
BulkRollback(o, r) == MapState(o, ToMove(r.snap, r.k), BulkFrom(r.k))

RestartCallOkNotifiesEach(r, i) ==
    /\ r.pc = "calls"
    /\ i \in r.pending
    /\ CanUpdate(i)
    /\ remote' = [remote EXCEPT ![i].state = toBackendState(BulkTo(r.k))]
    /\ restarts' = (restarts \ {r}) \cup
          {[r EXCEPT !.pending = r.pending \ {i},
                     !.pc = IF BulkTo(r.k) = "Complete" THEN "notify"
                            ELSE IF r.pending = {i} THEN "refresh" ELSE "calls"]}
    /\ ev' = Quiet
    /\ UNCHANGED <<ctx, opt, bulkLoading, orphans, lastRestart>>
    /\ RestartFrame

\* one update call of the Promise.all resolves; after the last one a bulk move
\* to Complete calls notifyTaskComplete(user.uid), the other one refresh()
RestartCallOk(r, i) ==
    /\ r.pc = "calls"
    /\ i \in r.pending
    /\ CanUpdate(i)
    /\ remote' = [remote EXCEPT ![i].state = toBackendState(BulkTo(r.k))]
    /\ LET rest == r.pending \ {i} IN
       restarts' = (restarts \ {r}) \cup
          {[r EXCEPT !.pending = rest,
                     !.pc = IF rest # {} THEN "calls"
                            ELSE IF BulkTo(r.k) = "Complete" THEN "notify" ELSE "refresh"]}
    /\ ev' = Quiet
    /\ UNCHANGED <<ctx, opt, bulkLoading, orphans, lastRestart>>
    /\ RestartFrame

\* one update call rejects, and with it the Promise.all: rollback, Alert 'Bulk
\* move failed'; the calls still in flight go on
RestartCallFail(r, i) ==
    /\ r.pc = "calls"
    /\ i \in r.pending
    /\ orphans' = orphans \cup
          {[id |-> j, archive |-> FALSE, state |-> toBackendState(BulkTo(r.k))] :
             j \in r.pending \ {i}}
    /\ lastRestart' = [lastRestart EXCEPT !.ok = FALSE]
    /\ BulkReturn(r, BulkRollback(opt, r))
    /\ ev' = [Event("bulkFailed", i, BulkTo(r.k)) EXCEPT !.rolled = TRUE, !.alerted = TRUE]
    /\ UNCHANGED <<remote, ctx>>
    /\ RestartFrame

\* notifyTaskComplete(user.uid) settles; its failure is dropped
RestartNotifyDone(r, ok) ==
    /\ r.pc = "notify"
    /\ restarts' = (restarts \ {r}) \cup {[r EXCEPT !.pc = "refresh"]}
    /\ ev' = [Event("bulkNotified", -1, BulkTo(r.k)) EXCEPT !.hooks = 1, !.hookOk = ok]
    /\ UNCHANGED <<remote, ctx, opt, bulkLoading, orphans, lastRestart>>
    /\ RestartFrame

\* refresh() of a bulk move settles (it never rejects); haptic('medium') is called
RestartBulkRefresh(r, ok) ==
    /\ r.pc = "refresh"
    /\ r.k < 3
    /\ ctx' = IF ok THEN RemoteList(remote) ELSE ctx
    /\ opt' = Normalize(opt, ctx')
    /\ restarts' = (restarts \ {r}) \cup {[r EXCEPT !.pc = "haptic"]}
    /\ lastRestart' = [lastRestart EXCEPT !.ok = @ /\ ok]
    /\ ev' = Quiet
    /\ UNCHANGED <<remote, bulkLoading, orphans>>
    /\ RestartFrame

\* haptic('medium') of a bulk move settles; its rejection runs the catch block
RestartBulkHaptic(r) ==
    /\ r.pc = "haptic"
    /\ r.k < 3
    /\ BulkReturn(r, IF haptics THEN opt ELSE BulkRollback(opt, r))
    /\ ev' = [Event("bulkSettled", -1, BulkTo(r.k)) EXCEPT
                !.updated = TRUE, !.rolled = ~haptics, !.alerted = ~haptics]
    /\ UNCHANGED <<remote, ctx, orphans, lastRestart>>
    /\ RestartFrame

\* the refresh() that ends handleRestart settles; haptic('heavy') is called
RestartRefresh(r, ok) ==
    /\ r.pc = "refresh"
    /\ r.k = 3
    /\ ctx' = IF ok THEN RemoteList(remote) ELSE ctx
    /\ opt' = Normalize(opt, ctx')
    /\ restarts' = (restarts \ {r}) \cup {[r EXCEPT !.pc = "haptic"]}
    /\ lastRestart' = [lastRestart EXCEPT !.ok = @ /\ ok]
    /\ ev' = [Event("restartRefreshed", -1, "-") EXCEPT !.updated = ok]
    /\ UNCHANGED <<remote, bulkLoading, orphans>>
    /\ RestartFrame

\* haptic('heavy') settles (Alert 'Restart failed' when it rejects); finally
RestartHaptic(r) ==
    /\ r.pc = "haptic"
    /\ r.k = 3
    /\ restarts' = restarts \ {r}
    /\ bulkLoading' = FALSE
    /\ ev' = [Event("restartSettled", -1, "-") EXCEPT !.alerted = ~haptics]
    /\ UNCHANGED <<remote, ctx, opt, orphans, lastRestart>>
    /\ RestartFrame

\* an update call of a bulk move settles after its Promise.all has rejected
OrphanSettle(x, ok) ==
    /\ x \in orphans
    /\ orphans' = orphans \ {x}
    /\ remote' = IF ok /\ CanUpdate(x.id)
                 THEN [remote EXCEPT ![x.id].state = x.state]
                 ELSE remote
    /\ ev' = Quiet
    /\ UNCHANGED <<ctx, opt, restarts, bulkLoading, lastRestart>>
    /\ RestartFrame
\* ------------------------------------------------------ archiveAllComplete
ArchFrame == UNCHANGED <<pendingMoves, moves, dels, edits, creates, restarts, orphans,
                         overlayTask, editTask, editVisible, addVisible, saving,
                         archivePrompt, restartPrompt, nops, haptics>>

\* the catch block of the Archive handler:
\* setOptimisticTasks(prev => [...prev, ...toArchive])
ReinsertAll(o, a) == o \o a.toArchive

\* 'Cancel' of the 'Archive All Complete' alert
ArchiveCancel ==
    /\ archivePrompt # <<>>
    /\ archivePrompt' = <<>>
    /\ ev' = Quiet
    /\ UNCHANGED <<remote, ctx, opt, pendingMoves, moves, dels, edits, creates, restarts,
                   archs, orphans, overlayTask, editTask, editVisible, addVisible, saving,
                   bulkLoading, restartPrompt, nops, haptics, lastRestart>>

\* 'Archive' of the alert, up to the await of the Promise.all
ArchiveConfirm ==
    /\ archivePrompt # <<>>
    /\ archivePrompt' = <<>>
    /\ bulkLoading' = TRUE
    /\ opt' = Normalize(Without(opt, IdsOf(archivePrompt)), ctx)
    /\ archs' = archs \cup
          {[toArchive |-> archivePrompt, pending |-> IdsOf(archivePrompt),
            pc |-> "calls", okIds |-> {}, failIds |-> {}]}
    /\ lastRestart' = [lastRestart EXCEPT !.confirmed = TRUE]
    /\ ev' = Event("archive", -1, "-")
    /\ UNCHANGED <<remote, ctx, pendingMoves, moves, dels, edits, creates, restarts,
                   orphans, overlayTask, editTask, editVisible, addVisible, saving,
                   restartPrompt, nops, haptics>>

ArchEvent(o, a) == [Event(o, -1, "-") EXCEPT !.okIds = a.okIds, !.failIds = a.failIds]

\* One updateTask(id, {isArchived: true}) resolves.  After the last one
\* refresh() is called; when the Promise.all has rejected already the handler
\* has returned and only the store changes.
ArchCallOk(a, i) ==
    /\ a.pc \in {"calls", "rejected"}
    /\ i \in a.pending
    /\ CanUpdate(i)
    /\ remote' = [remote EXCEPT ![i].isArchived = TRUE]
    /\ LET a2 == [a EXCEPT !.pending = @ \ {i}, !.okIds = @ \cup {i}] IN
       IF a2.pending # {}
       THEN /\ archs' = (archs \ {a}) \cup {a2}
            /\ ev' = Quiet
       ELSE IF a.pc = "calls"
       THEN /\ archs' = (archs \ {a}) \cup {[a2 EXCEPT !.pc = "refresh"]}
            /\ ev' = Quiet
       ELSE /\ archs' = archs \ {a}
            /\ ev' = ArchEvent("archCallsSettled", a2)
    /\ UNCHANGED <<ctx, opt, bulkLoading, lastRestart>>
    /\ ArchFrame

\* One call rejects.  The first rejection rejects the Promise.all: the catch
\* block puts toArchive back, Alert 'Archive failed'; finally.
ArchCallFail(a, i) ==
    /\ a.pc \in {"calls", "rejected"}
    /\ i \in a.pending
    /\ LET a2 == [a EXCEPT !.pending = @ \ {i}, !.failIds = @ \cup {i}, !.pc = "rejected"] IN
       /\ archs' = IF a2.pending # {} THEN (archs \ {a}) \cup {a2} ELSE archs \ {a}
       /\ ev' = IF a2.pending # {} THEN Quiet ELSE ArchEvent("archCallsSettled", a2)
    /\ IF a.pc = "calls"
       THEN /\ opt' = Normalize(ReinsertAll(opt, a), ctx)
            /\ bulkLoading' = FALSE
       ELSE UNCHANGED <<opt, bulkLoading>>
    /\ lastRestart' = [lastRestart EXCEPT !.ok = FALSE]
    /\ UNCHANGED <<remote, ctx>>
    /\ ArchFrame

\* refresh() of the Archive handler settles; haptic('medium') is called
ArchRefresh(a, ok) ==
    /\ a.pc = "refresh"
    /\ ctx' = IF ok THEN RemoteList(remote) ELSE ctx
    /\ opt' = Normalize(opt, ctx')
    /\ archs' = (archs \ {a}) \cup {[a EXCEPT !.pc = "haptic"]}
    /\ lastRestart' = [lastRestart EXCEPT !.ok = @ /\ ok]
    /\ ev' = Quiet
    /\ UNCHANGED <<remote, bulkLoading>>
    /\ ArchFrame

\* haptic('medium') settles; its rejection runs the catch block; finally
ArchHaptic(a) ==
    /\ a.pc = "haptic"
    /\ opt' = IF haptics THEN opt ELSE Normalize(ReinsertAll(opt, a), ctx)
    /\ bulkLoading' = FALSE
    /\ archs' = archs \ {a}
    /\ ev' = [ArchEvent("archSettled", a) EXCEPT !.rolled = ~haptics, !.alerted = ~haptics]
    /\ UNCHANGED <<remote, ctx, lastRestart>>
    /\ ArchFrame

\* ------------------------------------------------------------ drop zones
MaxRegs == 5      \* registrations that insert an entry in one run

\* what measure() may report for a column, and where a card may be dropped
ZoneRects == {[x |-> x, y |-> 0, width |-> 100, height |-> 100] : x \in {0, 100}}
DropXs == {50, 100, 150, 250}
DropYs == {50, 150}

\* the test of checkDropZone on one entry
ContainsInside(zone, x, y) ==
    /\ x > zone.x /\ x < zone.x + zone.width
    /\ y > zone.y /\ y < zone.y + zone.height
Contains(zone, x, y) ==
    /\ x >= zone.x /\ x <= zone.x + zone.width
    /\ y >= zone.y /\ y <= zone.y + zone.height

RECURSIVE checkDropZone(_, _, _)
\* for (const [state, zone] of dropZonesRef.current.entries()) ...; "null" for null
checkDropZone(zones, x, y) ==
    IF zones = <<>> THEN "null"
    ELSE IF Contains(Head(zones).zone, x, y) THEN Head(zones).state
    ELSE checkDropZone(Tail(zones), x, y)

HasZone(zones, state) == \E i \in 1..Len(zones) : zones[i].state = state

\* Map.prototype.set: a present key keeps its place, a new one goes last
MapSet(zones, state, zone) ==
    IF HasZone(zones, state)
    THEN [i \in 1..Len(zones) |->
            IF zones[i].state = state THEN [state |-> state, zone |-> zone] ELSE zones[i]]
    ELSE Append(zones, [state |-> state, zone |-> zone])

\* Map.prototype.delete
MapDelete(zones, state) == SelectSeq(zones, LAMBDA e : e.state # state)

NoHit == [x |-> -1, y |-> -1, result |-> "-"]

\* no column has been measured yet
ZoneInit ==
    /\ dropZones = <<>>
    /\ regTime = [c \in UIStates |-> 0]
    /\ clock = 0
    /\ hit = NoHit

\* registerDropZone, from the measure callbacks of a Column
RegisterDropZone(state, zone) ==
    /\ HasZone(dropZones, state) \/ clock < MaxRegs
    /\ dropZones' = MapSet(dropZones, state, zone)
    /\ IF HasZone(dropZones, state)
       THEN UNCHANGED <<regTime, clock>>
       ELSE /\ clock' = clock + 1
            /\ regTime' = [regTime EXCEPT ![state] = clock + 1]
    /\ UNCHANGED hit

\* unregisterDropZone, from the cleanup of a Column's effect
UnregisterDropZone(state) ==
    /\ dropZones' = MapDelete(dropZones, state)
    /\ regTime' = [regTime EXCEPT ![state] = 0]
    /\ UNCHANGED <<clock, hit>>

\* the pendingDrop effect of a TaskCard asks for the column under the drop point
CheckDrop(x, y) ==
    /\ hit' = [x |-> x, y |-> y, result |-> checkDropZone(dropZones, x, y)]
    /\ UNCHANGED <<dropZones, regTime, clock>>

\* ----------------------------------------------------------- auto-scroll
\* Lengths of the list (offsets, heights) are in half pixels, so that the
\* scroll amounts 15 * speedMultiplier are integers.
AssumedViewport == 600     \* px, the list height scrollStep subtracts
BaseScrollAmount == 15     \* px per frame at speed 1
MaxSpeed == 2              \* Math.min(speedMultiplier, 2)
AutoScrollZone == 120      \* px from the top or bottom edge of the screen
AutoScrollSpeedZone == 60  \* px
ScreenHeight == 800        \* px, Dimensions.get('window').height

Half(px) == 2 * px
Max(a, b) == IF a >= b THEN a ELSE b
Min(a, b) == IF a <= b THEN a ELSE b

\* what the device may report
ContentHeights == {Half(500), Half(660), Half(720)}
ViewportHeights == {Half(600), Half(700)}
ScrollOffsets == {0, Half(30), Half(60), Half(120)}
PointerYs == {0, 60, 90, 400, 710, 740, 800}

\* Math.max(0.5, (autoScrollZone - distanceFromEdge) / autoScrollSpeedZone),
\* in sixtieths
SpeedMultiplier(distanceFromEdge) ==
    Max(AutoScrollSpeedZone \div 2, AutoScrollZone - distanceFromEdge)

\* baseScrollAmount * Math.min(speedMultiplier, 2), in half pixels
ScrollAmount(direction, speed) ==
    LET amount == (Half(BaseScrollAmount) * Min(speed, MaxSpeed * AutoScrollSpeedZone))
                  \div AutoScrollSpeedZone
    IN IF direction = "up" THEN -amount ELSE amount

\* `running`: autoScrollInterval.current holds a frame id; `frames`: the frame
\* callbacks that are requested and neither run nor cancelled
NoLoop == [running |-> FALSE, direction |-> "-", speed |-> 0, contentHeight |-> 0,
           frames |-> 0]
NoWrite == [done |-> FALSE, offset |-> 0, contentHeight |-> 0, viewport |-> 0]

\* useState(0) for contentHeight, useRef(0) for scrollY, no frame requested
ScrollInit ==
    /\ viewport = Half(AssumedViewport)
    /\ scrollY = 0
    /\ contentHeight = 0
    /\ loop = NoLoop
    /\ written = NoWrite

\* startAutoScroll: a running loop is left alone; else a frame is requested for
\* a scrollStep that closes over direction, speedMultiplier and contentHeight
StartAutoScrollAgain(direction, speed) ==
    loop' = [running |-> TRUE, direction |-> direction, speed |-> speed,
             contentHeight |-> contentHeight, frames |-> loop.frames + 1]
StartAutoScroll(direction, speed) ==
    loop' = IF loop.running THEN loop
            ELSE [running |-> TRUE, direction |-> direction, speed |-> speed,
                  contentHeight |-> contentHeight, frames |-> loop.frames + 1]

StopAutoScrollKeepsFrame == loop' = [NoLoop EXCEPT !.frames = loop.frames]
\* stopAutoScroll: cancelAnimationFrame of the id held, if one is held
StopAutoScroll ==
    loop' = IF loop.running THEN [NoLoop EXCEPT !.frames = loop.frames - 1] ELSE loop

\* onUpdate of the drag gesture with the pointer at height currentY of the screen
PointerUpdate(currentY) ==
    /\ IF currentY < AutoScrollZone
       THEN StartAutoScroll("up", SpeedMultiplier(currentY))
       ELSE IF currentY > ScreenHeight - AutoScrollZone
       THEN StartAutoScroll("down", SpeedMultiplier(ScreenHeight - currentY))
       ELSE StopAutoScroll
    /\ UNCHANGED <<viewport, scrollY, contentHeight, written>>

\* onEnd of the drag gesture
DragEnd ==
    /\ StopAutoScroll
    /\ UNCHANGED <<viewport, scrollY, contentHeight, written>>

\* the frame callback scrollStep
ScrollStep ==
    /\ loop.frames > 0
    /\ LET newScrollY == Max(0, Min(loop.contentHeight - Half(AssumedViewport),
                                    scrollY + ScrollAmount(loop.direction, loop.speed)))
       IN IF /\ newScrollY # scrollY
             /\ \/ loop.direction = "up" /\ newScrollY < scrollY
                \/ loop.direction = "down" /\ newScrollY > scrollY
          THEN /\ written' = [done |-> TRUE, offset |-> newScrollY,
                              contentHeight |-> contentHeight, viewport |-> viewport]
               /\ scrollY' = newScrollY
               /\ UNCHANGED loop
          ELSE /\ loop' = [NoLoop EXCEPT !.frames = loop.frames - 1]
               /\ UNCHANGED <<scrollY, written>>
    /\ UNCHANGED <<viewport, contentHeight>>

\* handleScroll: the list reports its offset, which lies in its scroll range
HandleScroll(y) ==
    /\ y <= Max(0, contentHeight - viewport)
    /\ scrollY' = y
    /\ UNCHANGED <<viewport, contentHeight, loop, written>>

\* handleContentSizeChange
HandleContentSizeChange(height) ==
    /\ contentHeight' = height
    /\ UNCHANGED <<viewport, scrollY, loop, written>>

\* the list is laid out anew (rotation, keyboard, another device)
HandleLayout(height) ==
    /\ viewport' = height
    /\ UNCHANGED <<scrollY, contentHeight, loop, written>>

\* ---------------------------------------------------------- state mappers
MaxCalls == 4     \* calls of the mappers in one run

\* The states a mapper may be given: the two vocabularies, and values of
\* neither (the store is free to hold any string).
KnownStates == BackendStates \cup UIStates
RemoteValues == KnownStates \cup {"Archived", "done", ""}

\* the two screens of the repository, each with its toUIState
Screens == {1, 2}
toUIStateOf(screen, s) == IF screen = 1 THEN toUIState(s) ELSE toUIState2(s)

NoConv == [n |-> 0, op |-> "-", screen |-> 0, arg |-> "-", out |-> "-", from |-> "-"]

MapInit == conv = NoConv

\* toBackendState(s), as in updateTask(taskId, {state: toBackendState(target)})
Encode(s) ==
    /\ conv.n < MaxCalls
    /\ conv' = [n |-> conv.n + 1, op |-> "toBackend", screen |-> 0, arg |-> s,
                out |-> toBackendState(s), from |-> "-"]

\* toUIState(t.state) on a task of the list the store returned
Decode(screen, r) ==
    /\ conv.n < MaxCalls
    /\ conv' = [n |-> conv.n + 1, op |-> "toUI", screen |-> screen, arg |-> r,
                out |-> toUIStateOf(screen, r), from |-> "-"]

\* toUIState(created.state) on the answer to a call that sent toBackendState(s)
DecodeEncoded(screen) ==
    /\ conv.n < MaxCalls
    /\ conv.op = "toBackend"
    /\ conv' = [n |-> conv.n + 1, op |-> "roundTrip", screen |-> screen,
                arg |-> conv.out, out |-> toUIStateOf(screen, conv.out),
                from |-> conv.arg]

\* ------------------------------------------------------------------ specs
ScrollSteps ==
    \/ \E h \in ContentHeights : HandleContentSizeChange(h)
    \/ \E v \in ViewportHeights : HandleLayout(v)
    \/ \E y \in ScrollOffsets : HandleScroll(y)
    \/ \E y \in PointerYs : PointerUpdate(y)
    \/ DragEnd
    \/ ScrollStep

Init == BoardInit /\ ZoneInit /\ ScrollInit /\ MapInit

BOOL == {TRUE, FALSE}

MoveSteps ==
    \/ \E t \in Ids \cup {TempId}, X \in UIStates : RequestMove(t, X)
    \/ \E m \in moves : MoveUpdateOk(m)
    \/ \E m \in moves : MoveUpdateFail(m)
    \/ \E m \in moves : MoveHaptic(m)
    \/ \E m \in moves, ok \in BOOL : MoveNotifyDone(m, ok)
    \/ \E m \in moves : MoveAlert(m)
    \/ \E ok \in BOOL : FocusRefresh(ok)

DeleteSteps ==
    \/ \E i \in 1..NumTasks + 1 : OpenOverlay(i)
    \/ CloseOverlay
    \/ ConfirmDelete
    \/ \E d \in dels : DeleteUpdateOk(d)
    \/ \E d \in dels : DeleteUpdateFail(d)
    \/ \E d \in dels : DeleteHaptic(d)

EditSteps ==
    \/ OpenEditModal
    \/ CloseEdit
    \/ \E input \in TitleInputs : SubmitEdit(input)
    \/ \E e \in edits : EditOk(e)
    \/ \E e \in edits : EditFail(e)

CreateSteps ==
    \/ OpenAddModal
    \/ CloseAdd
    \/ \E input \in TitleInputs, st \in UIStates : SubmitNewTask(input, st)
    \/ \E c \in creates : CreateOk(c)
    \/ \E c \in creates : CreateFail(c)
    \/ \E c \in creates : CreateHaptic(c)

BulkSteps ==
    \/ RestartOpen
    \/ RestartCancel
    \/ RestartConfirm
    \/ \E r \in restarts : \E i \in r.pending : RestartCallOk(r, i)
    \/ \E r \in restarts : \E i \in r.pending : RestartCallFail(r, i)
    \/ \E r \in restarts, ok \in BOOL : RestartNotifyDone(r, ok)
    \/ \E r \in restarts, ok \in BOOL : RestartBulkRefresh(r, ok)
    \/ \E r \in restarts : RestartBulkHaptic(r)
    \/ \E r \in restarts, ok \in BOOL : RestartRefresh(r, ok)
    \/ \E r \in restarts : RestartHaptic(r)
    \/ \E x \in orphans, ok \in BOOL : OrphanSettle(x, ok)
    \/ ArchiveCancel
    \/ ArchiveConfirm
    \/ \E a \in archs : \E i \in a.pending : ArchCallOk(a, i)
    \/ \E a \in archs : \E i \in a.pending : ArchCallFail(a, i)
    \/ \E a \in archs, ok \in BOOL : ArchRefresh(a, ok)
    \/ \E a \in archs : ArchHaptic(a)

NextMove == MoveSteps /\ UNCHANGED <<zoneVars, scrollVars, mapVars>>
SpecMove == Init /\ [][NextMove]_vars

\* Every awaited call of a move (updateTask, the haptic, the hook) settles:
\* each is a promise of a network request or of a native call, and the steps
\* after an await run as soon as it settles.
MoveSettles ==
    /\ \E m \in moves :
          \/ MoveUpdateOk(m)
          \/ MoveUpdateFail(m)
          \/ MoveHaptic(m)
          \/ \E ok \in BOOL : MoveNotifyDone(m, ok)
          \/ MoveAlert(m)
    /\ UNCHANGED <<zoneVars, scrollVars, mapVars>>
\* one board for the runs checked with fairness: two tasks, two columns
InitLive ==
    /\ Init
    /\ \A i \in Ids : remote[i].present
    /\ \A i \in Ids : remote[i].state = IF i = 1 THEN "Exploring" ELSE "Doing"
SpecMoveLive == InitLive /\ [][NextMove]_vars /\ WF_vars(MoveSettles)

NextBulk == (BulkSteps \/ (\E ok \in BOOL : FocusRefresh(ok)))
            /\ UNCHANGED <<zoneVars, scrollVars, mapVars>>
SpecBulk == Init /\ [][NextBulk]_vars

NextZones == /\ \/ \E c \in UIStates, z \in ZoneRects : RegisterDropZone(c, z)
                \/ \E c \in UIStates : UnregisterDropZone(c)
                \/ \E x \in DropXs, y \in DropYs : CheckDrop(x, y)
             /\ UNCHANGED <<boardVars, scrollVars, mapVars>>
\* The registry and the scroll loop do not read the tasks: their runs start on
\* the screen of a user without tasks.
InitIdle == Init /\ remote = [i \in Ids |-> Absent] /\ haptics

SpecZones == InitIdle /\ [][NextZones]_vars

NextScroll == ScrollSteps /\ UNCHANGED <<boardVars, zoneVars, mapVars>>
SpecScroll == InitIdle /\ [][NextScroll]_vars

NextCard == (DeleteSteps \/ EditSteps \/ CreateSteps \/ (\E ok \in BOOL : FocusRefresh(ok)))
            /\ UNCHANGED <<zoneVars, scrollVars, mapVars>>
SpecCard == Init /\ [][NextCard]_vars

\* edits of a card while moves of the cards are in flight
NextEdit == /\ \/ MoveSteps
               \/ \E i \in 1..NumTasks + 1 : OpenOverlay(i)
               \/ CloseOverlay
               \/ EditSteps
            /\ UNCHANGED <<zoneVars, scrollVars, mapVars>>
SpecEdit == InitLive /\ [][NextEdit]_vars

NextMapper == /\ \/ \E d \in UIStates : Encode(d)
                 \/ \E screen \in Screens, r \in RemoteValues : Decode(screen, r)
                 \/ \E screen \in Screens : DecodeEncoded(screen)
              /\ UNCHANGED <<boardVars, zoneVars, scrollVars>>
SpecMapper == InitIdle /\ [][NextMapper]_vars

\* ================================================================ claims
\* the step just taken was a requestMove(t, X)
Requested(t, X) ==
    /\ ev'.op \in {"moveSuppressed", "moveNoop", "moveAccepted"}
    /\ ev'.id = t
    /\ ev'.target = X

\* the tasks of a list, without their order
TaskSet(seq) == {seq[i] : i \in 1..Len(seq)}

\* C1 (dedup): a requestMove(t, X) issued while a move with key (t, X) has not
\* settled changes nothing (no optimistic write, no PendingMove, no call, and
\* nothing is queued); so every key has exactly one move in flight, with at most
\* one update call.
C1_Dedup ==
    [][ /\ \A t \in Ids \cup {TempId}, X \in UIStates :
             (<<t, X>> \in pendingMoves /\ Requested(t, X))
                => /\ ev'.op = "moveSuppressed"
                   /\ UNCHANGED <<remote, ctx, opt, pendingMoves, moves>>
        /\ \A k \in pendingMoves' :
             Cardinality({m \in moves' : <<m.id, m.target>> = k}) = 1
        /\ \A m \in moves' : <<m.id, m.target>> \in pendingMoves' ]_vars

\* the second of two requests for a key arrived while the update call of the
\* first was in flight
C1_Witness ==
    /\ ev.op = "moveSuppressed"
    /\ \E m \in moves : m.id = ev.id /\ m.target = ev.target /\ m.pc = "update"

\* C2 (rollback on failure, as stated): when an accepted requestMove(t, X) whose
\* update call failed settles, t is in the column it was in before the request,
\* whatever other requests ran in between.
C2_RollbackAtSettle ==
    (ev.op = "moveSettled" /\ ~ev.updated /\ ev.id \in IdsOf(Tasks))
        => Find(Tasks, ev.id).state = ev.orig

\* C3 (board uniqueness): no task id occurs twice on the Board.
C3_Unique ==
    \A i, j \in 1..Len(Tasks) : Tasks[i].id = Tasks[j].id => i = j

\* C4 (no-op on identity): a requestMove(t, X) for a task t that is in column
\* X issues no call, creates no PendingMove and leaves the Board unchanged.
C4_Identity ==
    [][ \A t \in Ids \cup {TempId}, X \in UIStates :
          (Requested(t, X) /\ t \in IdsOf(Tasks) /\ Find(Tasks, t).state = X)
             => /\ UNCHANGED <<remote, ctx, opt, pendingMoves, moves>>
                /\ Tasks' = Tasks ]_vars

\* a request for the column the task is in, with no move of that key in flight
C4_Witness ==
    /\ ev.op = "moveNoop"
    /\ ev.id \in IdsOf(Tasks)
    /\ Find(Tasks, ev.id).state = ev.target
    /\ <<ev.id, ev.target>> \notin pendingMoves

\* C5 (successful completion): a move to Complete whose update call succeeded
\* was followed by exactly one call of the completion hook and is not rolled
\* back; no other move called the hook.
C5_Completion ==
    ev.op = "moveSettled"
        => IF ev.updated /\ ev.target = "Complete"
           THEN ev.hooks = 1 /\ ~ev.rolled
           ELSE ev.hooks = 0

\* C6 (bulk partial failure): when the calls of an archive-all have settled,
\* some failed and some succeeded, the tasks whose call failed are on the Board
\* once, in Complete, and those whose call succeeded are off the Board.
C6_PartialFailure ==
    (ev.op = "archCallsSettled" /\ ev.okIds # {} /\ ev.failIds # {})
        => /\ ev.okIds \cap IdsOf(Tasks) = {}
           /\ \A f \in ev.failIds :
                 /\ Cardinality({i \in 1..Len(Tasks) : Tasks[i].id = f}) = 1
                 /\ Find(Tasks, f).state = "Complete"

\* the one Restart workflow of the run is over: the archive was confirmed, every
\* call has resolved, nothing else was asked of the screen
RestartDone ==
    /\ lastRestart.n = 1
    /\ nops = 1
    /\ restarts = {} /\ archs = {} /\ orphans = {} /\ moves = {}
    /\ archivePrompt = <<>>
    /\ lastRestart.ok
    /\ lastRestart.confirmed \/ ByColumn(lastRestart.snap, "Complete") = <<>>

\* C7 (Restart end state): after a Restart with every call succeeding, the
\* tasks that were in Complete are archived and off the Board, those that were
\* in Reviewing are in Complete, those in Active are in Exploring, and those in
\* Exploring are unchanged.
C7_RestartEndState ==
    RestartDone =>
        \A k \in 1..Len(lastRestart.snap) :
            LET was == lastRestart.snap[k] IN
            CASE was.state = "Complete" ->
                    /\ was.id \notin IdsOf(Tasks)
                    /\ was.id \in Ids => remote[was.id].isArchived
              [] was.state = "Reviewing" ->
                    was.id \in IdsOf(Tasks) /\ Find(Tasks, was.id).state = "Complete"
              [] was.state = "Active" ->
                    was.id \in IdsOf(Tasks) /\ Find(Tasks, was.id).state = "Exploring"
              [] OTHER -> was \in TaskSet(Tasks)

\* C8 (board rebuilt on refresh): when a refresh completes with no optimistic
\* mutation pending, the Board holds the non-archived tasks of the store in
\* their display states.
C8_Rebuilt ==
    (ev.op = "refresh" /\ ev.updated /\ moves = {} /\ pendingMoves = {})
        => TaskSet(Tasks) = TaskSet(Mapped(RemoteList(remote)))

\* C9 (auto-scroll bounds): an offset written by the loop is at least 0 and at
\* most contentHeight - viewportHeight (0 when the content is shorter).
C9_Bounds ==
    written.done
        => /\ written.offset >= 0
           /\ written.offset <= Max(0, written.contentHeight - written.viewport)

\* the zones A and B of the example, A registered before B
ZoneA == [x |-> 0, y |-> 0, width |-> 100, height |-> 100]
ZoneB == [x |-> 100, y |-> 0, width |-> 100, height |-> 100]
ABRegistered ==
    dropZones = <<[state |-> "Exploring", zone |-> ZoneA],
                  [state |-> "Active", zone |-> ZoneB]>>

\* the registered columns whose rectangle holds (x, y), its four edges included
Holding(x, y) ==
    {c \in UIStates :
        \E i \in 1..Len(dropZones) :
            /\ dropZones[i].state = c
            /\ dropZones[i].zone.x <= x
            /\ x <= dropZones[i].zone.x + dropZones[i].zone.width
            /\ dropZones[i].zone.y <= y
            /\ y <= dropZones[i].zone.y + dropZones[i].zone.height}

\* C10 (drop resolution): checkDropZone returns the column registered earliest
\* among those whose rectangle holds the point, edges included, and null when
\* there is none; with A registered before B, (50,50) gives A, (150,50) gives
\* B, (250,50) gives null and (100,50) on the shared edge gives A.
C10_Resolve ==
    [][ hit' # hit =>
          LET x == hit'.x
              y == hit'.y
              holding == Holding(x, y)
          IN /\ holding = {} => hit'.result = "null"
             /\ holding # {} =>
                  /\ hit'.result \in holding
                  /\ \A c \in holding : regTime[hit'.result] <= regTime[c]
             /\ (ABRegistered /\ y = 50) =>
                  /\ x = 50 => hit'.result = "Exploring"
                  /\ x = 150 => hit'.result = "Active"
                  /\ x = 250 => hit'.result = "null"
                  /\ x = 100 => hit'.result = "Exploring" ]_vars

\* a drop on the edge that A and B share, resolved to A
C10_Witness ==
    /\ ABRegistered
    /\ regTime["Exploring"] < regTime["Active"]
    /\ hit = [x |-> 100, y |-> 50, result |-> "Exploring"]

\* C11 (mapper round trip): for each display state s,
\* toUIState(toBackendState(s)) = s, in either screen.
C11_RoundTrip ==
    conv.op = "roundTrip" => /\ conv.from \in UIStates
                             /\ conv.out = conv.from

\* a display state other than the default came back from its remote name
C11_Witness ==
    /\ conv.op = "roundTrip"
    /\ conv.from = "Reviewing"
    /\ conv.arg = "Doing"
    /\ conv.out = "Reviewing"

\* C12 (mapper safe default): toUIState answers for every value, and with
\* Exploring for a value outside the known set.
C12_SafeDefault ==
    conv.op = "toUI" =>
        /\ conv.out \in UIStates
        /\ conv.arg \notin KnownStates => conv.out = "Exploring"

\* C13 (PendingMove lifecycle): the key of an accepted move is removed when
\* the move returns, whatever the outcome of its calls: a held key is
\* eventually released, no key is held when no move is in flight, and a
\* request is suppressed only by a move of the same key still in flight.
KeyOf(m) == <<m.id, m.target>>
C13_Lifecycle ==
    /\ [](pendingMoves = {KeyOf(m) : m \in moves})
    /\ [](ev.op = "moveSuppressed" =>
            \E m \in moves : KeyOf(m) = <<ev.id, ev.target>>)
    /\ \A t \in Ids, X \in UIStates :
          (<<t, X>> \in pendingMoves) ~> (<<t, X>> \notin pendingMoves)

\* a move whose update failed has returned and nothing is held
C13_Witness ==
    /\ ev.op = "moveSettled"
    /\ ev.rolled
    /\ ~ev.updated
    /\ moves = {}
    /\ pendingMoves = {}

\* C14 (secondary-effect failure): when the update of a move to Complete
\* succeeded and its completion hook fails, the move returns without touching
\* the Board (the task is not rolled back), without an alert, and with its key
\* removed.
HookFailed(e) ==
    /\ e.op = "moveSettled"
    /\ e.hooks > 0
    /\ ~e.hookOk
IsRequest(e) == e.op \in {"moveSuppressed", "moveNoop", "moveAccepted"}
C15_PerKey ==
    [][(/\ IsRequest(ev')
        /\ pendingMoves # {}
        /\ <<ev'.id, ev'.target>> \notin pendingMoves
        /\ Find(Tasks, ev'.id) # None
        /\ Find(Tasks, ev'.id).state # ev'.target)
       => /\ ev'.op = "moveAccepted"
          /\ Find(opt', ev'.id).state = ev'.target
          /\ pendingMoves' = pendingMoves \cup {<<ev'.id, ev'.target>>}
          /\ moves \subseteq moves'
          /\ \E m \in moves' \ moves :
                /\ KeyOf(m) = <<ev'.id, ev'.target>>
                /\ m.pc = "update"]_vars

\* two moves of one task, to two columns, both waiting for their update
C15_Witness ==
    /\ ev.op = "moveAccepted"
    /\ \E m1, m2 \in moves :
          /\ m1.id = m2.id
          /\ m1.target # m2.target
          /\ m1.pc = "update"
          /\ m2.pc = "update"

\* C16 (validation failure): a create or an edit whose title is empty once
\* trimmed is rejected before anything else: the step that rejects it leaves
\* the Board and the store alone and issues no call, and a submit that was
\* applied had a title with something other than blanks in it.
Blank(title) == \A i \in DOMAIN title : title[i] = " "
C16_Validation ==
    [][/\ ev'.op \in {"createRejected", "editRejected"} =>
            /\ ev'.alerted
            /\ opt' = opt
            /\ remote' = remote
            /\ creates' = creates
            /\ edits' = edits
            /\ saving' = saving
       /\ ev'.op = "createApplied" =>
            \E c \in creates' \ creates : ~Blank(c.title)
       /\ ev'.op = "editApplied" =>
            \E e \in edits' \ edits : ~Blank(e.updated.title)]_vars

\* a blank title was submitted in the add modal: the modal is still open,
\* nothing was sent, the Board is the list the store returned
C16_Witness ==
    /\ ev.op = "createRejected"
    /\ addVisible
    /\ ~saving
    /\ creates = {}
    /\ InFlight = 0
    /\ Len(opt) > 0
    /\ opt = Mapped(ctx)

\* C17 (final refresh of Restart): the refresh that ends a run of Restart is
\* issued after every remote call of the three steps has settled: while it is
\* in flight no update call of a bulk move and no archive call is in flight.
FinalRefreshInFlight == \E r \in restarts : r.k = 3 /\ r.pc = "refresh"
C17_FinalRefresh ==
    FinalRefreshInFlight =>
        /\ orphans = {}
        /\ \A a \in archs : a.pending = {}

\* C18 (quiescent consistency of moves): when no move is in flight, every
\* task of the Board is in the column that its state in the store maps to.
C18_Quiescent ==
    (moves = {} /\ pendingMoves = {})
        => \A i \in 1..Len(Tasks) :
              remote[Tasks[i].id].present
                 => Tasks[i].state = toUIState(remote[Tasks[i].id].state)

\* C19 (Restart step order): the calls of a step are issued once the calls of
\* the steps before it have settled: no archive call is in flight while the
\* calls of a bulk move are, and no call of the first bulk move is in flight
\* while the calls of the second are.
CallsInFlight(k) == \E r \in restarts : r.k = k /\ r.pc = "calls" /\ r.pending # {}
C19_StepOrder ==
    /\ (CallsInFlight(1) \/ CallsInFlight(2)) => \A a \in archs : a.pending = {}
    /\ CallsInFlight(2) =>
          \A x \in orphans : x.state # toBackendState(BulkTo(1))

\* C20 (bulk failure isolation): when a call of a bulk move fails, the tasks
\* of the same bulk move whose update is in the store are in the target column
\* of the Board.
SourceOf(target) == IF target = BulkTo(1) THEN BulkFrom(1) ELSE BulkFrom(2)
C20_Isolation ==
    ev.op = "bulkFailed" =>
        \A i \in 1..Len(lastRestart.snap) :
            LET t == lastRestart.snap[i] IN
            (/\ t.state = SourceOf(ev.target)
             /\ t.id # ev.id
             /\ remote[t.id].state = toBackendState(ev.target))
                => /\ Find(opt, t.id) # None
                   /\ Find(opt, t.id).state = ev.target

\* C21 (Restart is best-effort): when a call of the first bulk move is
\* rejected the failure is reported ('Bulk move failed') and the second bulk
\* move, if its source column has tasks, has issued its update calls; the
\* steps of the archive handler, failing or not, leave the bulk moves alone.
C21_BestEffort ==
    /\ []((ev.op = "bulkFailed" /\ ev.target = BulkTo(1)) =>
             /\ ev.alerted
             /\ ToMove(lastRestart.snap, 2) # {} =>
                   \E r \in restarts : /\ r.k = 2
                                       /\ r.pc = "calls"
                                       /\ r.pending = ToMove(lastRestart.snap, 2))
    /\ [][archs' # archs => restarts' = restarts /\ orphans' = orphans]_vars

\* the move Reviewing -> Complete failed and the update call of the move
\* Active -> Exploring is in flight
C21_Witness ==
    /\ ev.op = "bulkFailed"
    /\ ev.target = "Complete"
    /\ ev.alerted
    /\ \E r \in restarts : r.k = 2 /\ r.pc = "calls" /\ r.pending # {}

\* C22 (archived tasks stay off the Board): when a delete has returned after
\* its archive call succeeded, or an archive-all has returned after all its
\* calls succeeded, no archived task is in a column of the Board.
C22_OffBoard ==
    /\ (ev.op = "deleteSettled" /\ ev.updated /\ ~ev.rolled)
          => ev.id \notin IdsOf(Tasks)
    /\ (ev.op = "archSettled" /\ ev.failIds = {} /\ ~ev.rolled)
          => ev.okIds \cap IdsOf(Tasks) = {}

\* C23 (out-of-order completion is local): a step in which a call of a move
\* on task t settles (its commit, its rollback, its return) keeps the tasks of
\* the Board and their order, and changes nothing but the column of t.
C23_Local ==
    [][moves \ moves' # {} =>
          /\ Len(opt') = Len(opt)
          /\ \A i \in 1..Len(opt) :
                /\ opt'[i].id = opt[i].id
                /\ opt'[i].title = opt[i].title
                /\ opt'[i].state # opt[i].state =>
                      \E m \in moves \ moves' : m.id = opt[i].id]_vars

\* a move was rolled back while a move of another task, accepted before or
\* after it, still waits for its update
C23_Witness ==
    /\ ev.op = "moveRolledBack"
    /\ Len(opt) = 2
    /\ \E m \in moves : m.id # ev.id /\ m.pc = "update" /\ m.target = ev.target

\* C24 (auto-scroll direction switch): a pointer update in the zone of the
\* other edge while a loop is running leaves a loop running in the new
\* direction.
OtherZone(y) ==
    IF loop.direction = "up" THEN y > ScreenHeight - AutoScrollZone
                             ELSE y < AutoScrollZone
C24_Switch ==
    \A y \in PointerYs :
        (loop.running /\ OtherZone(y)) =>
            ENABLED (/\ PointerUpdate(y)
                     /\ loop'.running
                     /\ loop'.direction # loop.direction)

\* C25 (no leaked scroll loop): a stop (the end of the drag, a pointer update
\* in the middle band, the cleanup of an unmount) leaves no loop and no frame
\* callback behind; while no loop is running no scrollStep can run and the
\* offset is not written.
MiddleBand(y) == y >= AutoScrollZone /\ y <= ScreenHeight - AutoScrollZone
Stopped == ~loop.running /\ loop.frames = 0 /\ ~ENABLED ScrollStep
C25_NoLeak ==
    /\ [](ENABLED (DragEnd /\ Stopped'))
    /\ [](\A y \in PointerYs : MiddleBand(y) => ENABLED (PointerUpdate(y) /\ Stopped'))
    /\ [](~loop.running => Stopped)
    /\ [][~loop.running => written' = written]_vars

\* a loop that had scrolled was stopped before the clamp: nothing is scheduled
C25_Witness ==
    /\ Stopped
    /\ written.done
    /\ scrollY = written.offset
    /\ scrollY > 0
    /\ scrollY < contentHeight - Half(AssumedViewport)

\* C26 (auto-scroll idempotent start): a start while a loop is running in
\* the same direction changes nothing, whatever its speed, so that at most
\* one frame callback is requested at any time: one scrollStep per frame.
SameZone(y) ==
    IF loop.direction = "up" THEN y < AutoScrollZone
                             ELSE y > ScreenHeight - AutoScrollZone
C26_Idempotent ==
    /\ \A y \in PointerYs :
          (loop.running /\ SameZone(y)) =>
              ENABLED (PointerUpdate(y) /\ UNCHANGED scrollVars)
    /\ loop.frames = IF loop.running THEN 1 ELSE 0

\* a loop has scrolled down at the lowest speed; the pointer may next be
\* reported deeper in the same zone, asking for a higher speed
C26_Witness ==
    /\ loop.running
    /\ loop.direction = "down"
    /\ loop.speed = SpeedMultiplier(90)
    /\ loop.frames = 1
    /\ written.done
    /\ scrollY = written.offset
    /\ \E y \in PointerYs : SameZone(y) /\ SpeedMultiplier(ScreenHeight - y) > loop.speed

\* C27 (auto-scroll stops at the clamp): a frame that writes an offset moves
\* it strictly in the direction of the loop and not past the ends of the
\* list's scroll range; a frame that cannot move it requests no further frame.
ScrollRangeEnd == Max(0, contentHeight - viewport)
C27_Clamp ==
    [][/\ written' # written =>
            /\ loop.direction = "up" => scrollY' < scrollY
            /\ loop.direction = "down" => scrollY' > scrollY
            /\ scrollY' >= 0
            /\ scrollY' <= ScrollRangeEnd
            /\ loop' = loop
       /\ (loop.frames > loop'.frames) => written' = written]_vars

\* C28 (edit leaves the column alone): the step that applies an edit and the
\* step that settles it (commit or rollback) keep the column of the edited
\* task on the Board.
ColumnOf(o, i) == IF Find(o, i) = None THEN "-" ELSE Find(o, i).state
C28_EditKeepsColumn ==
    [][ev'.op \in {"editApplied", "editSettled"} =>
          ColumnOf(opt', ev'.id) = ColumnOf(opt, ev'.id)]_vars

\* C29 (a committed move is never reverted): a move whose update call
\* succeeded is not rolled back and raises no 'Move failed' alert, whatever
\* becomes of the haptic that follows the update.
C29_Committed ==
    (ev.op \in {"moveRolledBack", "moveSettled"} /\ ev.updated)
        => /\ ~ev.rolled
           /\ ~ev.alerted

\* C30 (bulk completion notifies once): the completion hook of a bulk move is
\* called when the last update of a move to Complete has succeeded, once for
\* the batch and without a task id; a bulk move to Complete goes on to its
\* refresh from that call only, the bulk move to Exploring from its updates,
\* and a bulk move that failed has called no hook.
Entered(pc, k) == \E r \in restarts' \ restarts : r.pc = pc /\ r.k = k
C30_NotifyOnce ==
    /\ [][/\ Entered("notify", 1) =>
               /\ \E q \in restarts : /\ q.k = 1 /\ q.pc = "calls"
                                      /\ Cardinality(q.pending) = 1
                                      /\ remote'[CHOOSE i \in q.pending : TRUE].state = "Done"
               /\ \A i \in ToMove(lastRestart.snap, 1) : remote'[i].state = "Done"
          /\ ~Entered("notify", 2)
          /\ Entered("refresh", 1) => \E q \in restarts : q.k = 1 /\ q.pc = "notify"
          /\ Entered("refresh", 2) => \E q \in restarts : q.k = 2 /\ q.pc = "calls"]_vars
    /\ [](ev.op = "bulkNotified" => ev.hooks = 1 /\ ev.id = -1 /\ ev.target = "Complete")
    /\ [](ev.op = "bulkFailed" => ev.hooks = 0)

\* the hook of a bulk move of two tasks has been called, both are Done
C30_Witness ==
    /\ ev.op = "bulkNotified"
    /\ Cardinality(ToMove(lastRestart.snap, 1)) = 2
    /\ \A i \in ToMove(lastRestart.snap, 1) : remote[i].state = "Done"
====
